---- MODULE Spec2Model ----
(***************************************************************************)
(* Model of the Fusion 360 add-in script A_flow-meter.py: the FlowValve    *)
(* parameter object (five inputs, two derived fields P and WT) and the     *)
(* command handlers that fill it from the dialog and build the geometry.   *)
(*                                                                         *)
(* Numbers.  Python floats are modelled in decimal:                        *)
(*   - lengths (D, L, RH, WT, d) are integers in 1/1000 cm;                *)
(*   - angles are integers in 1/1000 rad;                                  *)
(*   - a cosine and the quotient P are decimal floats [m, e] standing for  *)
(*     m * 10^e, so that the tiny non-zero cosines math.cos returns near   *)
(*     a zero of the cosine (6.123e-17 at 0 rad) and the huge quotients    *)
(*     they give are kept as what they are: finite values.                 *)
(***************************************************************************)
EXTENDS Integers, Sequences, FiniteSets, TLC

VARIABLES
    fv,             \* the FlowValve object of the current client, or NoValve
    last,           \* the last call made on fv: [op, arg]
    pre,            \* the fields of fv just before that call
    exc,            \* the exception the last call / notification raised
    phase,          \* script lifecycle: "loaded", "started", "dialog", "terminated"
    handlers,       \* the module-level list _handlers
    attached,       \* the host's event -> handler registrations
    dialog,         \* the command inputs of the dialog
    pc,             \* position inside FlowValveCommandExecuteHandler.notify
    idx,            \* index of the command input the for loop is at
    event,          \* the event being notified ("execute" or "executePreview")
    isValidResult,  \* args.isValidResult of the current notification
    messageBox,     \* the last message box shown by ui.messageBox
    built,          \* what create_flow_valve handed to the host, or NotBuilt
    autoTerminate,  \* the host's auto-terminate flag of the script
    terminatedBy    \* what ended the script: "none", "adsk.terminate", "autoTerminate"

vars == <<fv, last, pre, exc, phase, handlers, attached, dialog, pc, idx,
          event, isValidResult, messageBox, built, autoTerminate, terminatedBy>>

objVars == <<fv, last, pre, exc>>
cmdVars == <<phase, handlers, attached, dialog, pc, idx, event,
             isValidResult, messageBox, built, autoTerminate, terminatedBy>>

-----------------------------------------------------------------------------
(* Arithmetic helpers *)

Abs(x) == IF x < 0 THEN -x ELSE x

Sgn(x) == IF x < 0 THEN -1 ELSE IF x = 0 THEN 0 ELSE 1

RECURSIVE Pow10(_)
Pow10(k) == IF k <= 0 THEN 1 ELSE 10 * Pow10(k - 1)

\* math.radians: degrees -> radians, here to 1/1000 rad (pi = 3.1416)
radians(deg) == (deg * 31416 + 900) \div 1800

\* math.degrees: radians (1/1000 rad) -> whole degrees
degrees(rad) == (rad * 1800 + 15708) \div 31416

\* cos(pi/2 - theta) as math.cos evaluates it in double precision, to four
\* significant digits, at the angles the model uses.  At a multiple of pi the
\* double result is a small non-zero residue, never 0.0.
CosHalfPiMinus(theta) ==
    CASE theta = radians(0)   -> [m |-> 6123,   e |-> -20]   \*  6.123e-17
      [] theta = radians(30)  -> [m |-> 5000,   e |-> -4]    \*  0.5
      [] theta = radians(70)  -> [m |-> 9397,   e |-> -4]    \*  0.93969
      [] theta = radians(90)  -> [m |-> 10000,  e |-> -4]    \*  1.0
      [] theta = radians(110) -> [m |-> 9397,   e |-> -4]    \*  0.93969
      [] theta = radians(180) -> [m |-> 6123,   e |-> -20]   \*  6.123e-17
      [] theta = radians(210) -> [m |-> -5000,  e |-> -4]    \* -0.5
      [] theta = radians(270) -> [m |-> -10000, e |-> -4]    \* -1.0
      [] theta = radians(360) -> [m |-> -18370, e |-> -20]   \* -1.837e-16
      [] theta = radians(430) -> [m |-> 9397,   e |-> -4]    \*  0.93969

\* Python float division x / c of a length x (1/1000 cm) by a cosine c:
\* the quotient as a decimal float; ZeroDivisionError when c is 0.0.
DivRaises(x, c) == c.m = 0

FloatDiv(x, c) ==
    [m |-> Sgn(x) * Sgn(c.m) * ((Abs(x) * 10000) \div Abs(c.m)),
     e |-> -7 - c.e]

\* Round half to even of n / 10^k
RoundHalfEven(n, k) ==
    LET p == Pow10(k)
        q == Abs(n) \div p
        r == Abs(n) % p
        up == (2 * r > p) \/ (2 * r = p /\ q % 2 = 1)
    IN  Sgn(n) * (IF up THEN q + 1 ELSE q)

\* Python round(x, nd) of a decimal float
round(x, nd) ==
    IF x.e >= -nd THEN x
    ELSE [m |-> RoundHalfEven(x.m, -nd - x.e), e |-> -nd]

\* a length in 1/1000 cm as a decimal float
Float(x) == [m |-> x, e |-> -3]

\* number of decimal digits of |n| (0 for 0)
RECURSIVE Digits(_)
Digits(n) == IF n = 0 THEN 0 ELSE 1 + Digits(Abs(n) \div 10)

\* |x| < 10^k for a decimal float x
BelowPow10(x, k) == x.m = 0 \/ Digits(x.m) + x.e <= k

\* a double is finite up to about 1.8e308
IsFinite(x) == BelowPow10(x, 308)

-----------------------------------------------------------------------------
(* Global design parameters (module level) *)

defaultHoles == 6

defaultRH == 3000

defaultLength == 100000

defaultTheta == radians(70)

defaultD == 40000

-----------------------------------------------------------------------------
(* Values a caller may pass to the setters / type into the dialog *)

DegInputs == {0, 30, 70, 90, 110, 180, 210, 270, 360, 430}

AngleInputs == {radians(dg) : dg \in DegInputs}

DInputs == {-40000, 0, 40000, 50000}

LInputs == {0, 100000}

RHInputs == {0, 3000}

HInputs == {0, 4, 6}

\* values the user types into the dialog
DialogDegInputs == {0, 70, 90, 210}

DialogDInputs == {-40000, 0, 40000, 50000}

DialogHInputs == {0, 4, 6}

NoValve == [kind |-> "none"]

NoCall == [op |-> "init", arg |-> 0]

NotBuilt == [kind |-> "none"]

NoDialog == [kind |-> "none"]

-----------------------------------------------------------------------------
(* class FlowValve *)

\* math.cos(theta) at the same angles (used where cos(pi/2 - theta) is meant)
CosOf(theta) ==
    CASE theta = radians(0)   -> [m |-> 10000,  e |-> -4]
      [] theta = radians(30)  -> [m |-> 8660,   e |-> -4]
      [] theta = radians(70)  -> [m |-> 3420,   e |-> -4]
      [] theta = radians(90)  -> [m |-> 6123,   e |-> -20]
      [] theta = radians(110) -> [m |-> -3420,  e |-> -4]
      [] theta = radians(180) -> [m |-> -10000, e |-> -4]
      [] theta = radians(210) -> [m |-> -8660,  e |-> -4]
      [] theta = radians(270) -> [m |-> -18370, e |-> -20]
      [] theta = radians(360) -> [m |-> 10000,  e |-> -4]
      [] theta = radians(430) -> [m |-> 3420,   e |-> -4]

\* calculate_P with cos(theta) in place of cos(pi/2 - theta)
calculate_P_cosTheta(self) ==
    [self EXCEPT !.P = FloatDiv(self.D, CosOf(self.theta))]

\* calculate_P: self._P = self._D / cos(pi/2 - self._theta).  When the
\* division raises, the assignment does not happen.
calculate_P(self) ==
    IF DivRaises(self.D, CosHalfPiMinus(self.theta))
    THEN self
    ELSE [self EXCEPT !.P = FloatDiv(self.D, CosHalfPiMinus(self.theta))]

calculate_P_raises(self) == DivRaises(self.D, CosHalfPiMinus(self.theta))

\* calculate_WT without the inner subtraction: D/2 - D/10
calculate_WT_innerRadius(self) ==
    [self EXCEPT !.WT = (self.D \div 2) - (self.D \div 10)]

\* calculate_WT: self._WT = self._D/2 - (self.D/2 - self.D/10)
calculate_WT(self) ==
    [self EXCEPT !.WT = (self.D \div 2) - ((self.D \div 2) - (self.D \div 10))]

\* __init__: the defaults, then WT, the sensor pipe diameter _d, then P
FlowValve_init ==
    LET s1 == [kind |-> "FlowValve",
               H |-> defaultHoles, RH |-> defaultRH, theta |-> defaultTheta,
               D |-> defaultD, L |-> defaultLength,
               WT |-> 0, d |-> 0, P |-> [m |-> 0, e |-> 0]]
        s2 == calculate_WT(s1)
        s3 == [s2 EXCEPT !.d = 15000]
    IN  calculate_P(s3)

\* property setters

\* H setter that writes the hole radius field
H_set_writesRH(self, value) == [self EXCEPT !.RH = value]

H_set(self, value) == [self EXCEPT !.H = value]

RH_set(self, value) == [self EXCEPT !.RH = value]

L_set(self, value) == [self EXCEPT !.L = value]

\* theta setter that stores the angle without recomputing P
theta_set_noRecompute(self, value) == [self EXCEPT !.theta = value]

\* theta setter that recomputes P before it stores the angle
theta_set_recomputeFirst(self, value) == [calculate_P(self) EXCEPT !.theta = value]

theta_set(self, value) == calculate_P([self EXCEPT !.theta = value])

\* D setter that stores the diameter without recomputing P
D_set_noRecompute(self, value) == [self EXCEPT !.D = value]

D_set(self, value) == calculate_P([self EXCEPT !.D = value])

-----------------------------------------------------------------------------
(* A client calling the setters of one FlowValve in any order *)

Init ==
    /\ fv = FlowValve_init
    /\ last = NoCall
    /\ pre = FlowValve_init
    /\ exc = "none"
    /\ phase = "loaded"
    /\ handlers = <<>>
    /\ attached = {}
    /\ dialog = NoDialog
    /\ pc = "idle"
    /\ idx = 0
    /\ event = "none"
    /\ isValidResult = FALSE
    /\ messageBox = "none"
    /\ built = NotBuilt
    /\ autoTerminate = TRUE
    /\ terminatedBy = "none"

Call(op, arg, new, raised) ==
    /\ fv.kind = "FlowValve"
    /\ fv' = new
    /\ last' = [op |-> op, arg |-> arg]
    /\ pre' = fv
    /\ exc' = IF raised THEN "ZeroDivisionError" ELSE "none"
    /\ UNCHANGED cmdVars

SetTheta ==
    \E v \in AngleInputs :
        Call("theta", v, theta_set(fv, v), calculate_P_raises([fv EXCEPT !.theta = v]))

SetD ==
    \E v \in DInputs :
        Call("D", v, D_set(fv, v), calculate_P_raises([fv EXCEPT !.D = v]))

SetL == \E v \in LInputs : Call("L", v, L_set(fv, v), FALSE)

SetRH == \E v \in RHInputs : Call("RH", v, RH_set(fv, v), FALSE)

SetH == \E v \in HInputs : Call("H", v, H_set(fv, v), FALSE)

Next == SetTheta \/ SetD \/ SetL \/ SetRH \/ SetH

Spec == Init /\ [][Next]_vars

-----------------------------------------------------------------------------
(* The add-in: run, the command-created handler, the execute handler (used *)
(* for both execute and executePreview) and the destroy handler            *)

\* the command inputs with the read-only P field added before the D input
InputIds_PBeforeD == <<"theta", "P", "D", "L", "RH", "H", "WT">>

\* the command inputs in the order the command-created handler adds them
InputIds == <<"theta", "D", "L", "RH", "H", "P", "WT">>

\* unitsMgr.evaluateExpression(expression, "deg"): degrees typed in the
\* dialog -> radians (the host's internal unit)
evaluateDeg(expr) == radians(expr)

\* unitsMgr.evaluateExpression(expression, "cm") / (expression, "pcs"): the
\* internal unit is the unit of the expression
evaluateCm(expr) == expr

CmdInit ==
    /\ fv = NoValve
    /\ last = NoCall
    /\ pre = NoValve
    /\ exc = "none"
    /\ phase = "loaded"
    /\ handlers = <<>>
    /\ attached = {}
    /\ dialog = NoDialog
    /\ pc = "idle"
    /\ idx = 0
    /\ event = "none"
    /\ isValidResult = FALSE
    /\ messageBox = "none"
    /\ built = NotBuilt
    /\ autoTerminate = TRUE
    /\ terminatedBy = "none"

\* run that executes the command definition and leaves auto-termination on
run_keepsAutoTerminate ==
    /\ phase = "loaded"
    /\ handlers' = Append(handlers, "onCommandCreated")
    /\ attached' = attached \cup {<<"commandCreated", "onCommandCreated">>}
    /\ phase' = "started"
    /\ UNCHANGED <<autoTerminate, terminatedBy, objVars, dialog, pc, idx,
                   event, isValidResult, messageBox, built>>

\* run(context): attach the command-created handler, execute the command
\* definition, switch auto-termination off
run ==
    /\ phase = "loaded"
    /\ handlers' = Append(handlers, "onCommandCreated")
    /\ attached' = attached \cup {<<"commandCreated", "onCommandCreated">>}
    /\ phase' = "started"
    /\ autoTerminate' = FALSE
    /\ UNCHANGED <<terminatedBy, objVars, dialog, pc, idx, event,
                   isValidResult, messageBox, built>>

\* run(context), when a host call raises before adsk.autoTerminate(False)
\* (before or after the handler was attached): the except clause shows
\* 'Failed', run returns with auto-termination still on and the host ends
\* the script
RunRaises ==
    /\ phase = "loaded"
    /\ \/ UNCHANGED <<handlers, attached>>
       \/ /\ handlers' = Append(handlers, "onCommandCreated")
          /\ attached' = attached \cup {<<"commandCreated", "onCommandCreated">>}
    /\ messageBox' = "Failed"
    /\ autoTerminate
    /\ phase' = "terminated"
    /\ terminatedBy' = "autoTerminate"
    /\ UNCHANGED <<autoTerminate, objVars, dialog, pc, idx, event,
                   isValidResult, built>>

\* the dialog as FlowValveCommandCreatedHandler.notify fills it
CreatedDialog ==
    [kind |-> "dialog",
     theta |-> degrees(defaultTheta),
     D |-> defaultD,
     L |-> defaultLength,
     RH |-> defaultRH,
     H |-> defaultHoles,
     P |-> round(FloatDiv(defaultD, CosHalfPiMinus(defaultTheta)), 2),
     WT |-> round(Float((defaultD \div 2) - ((defaultD \div 2) - (defaultD \div 10))), 0)]

\* command-created handler that attaches the preview handler without
\* appending it to _handlers
CommandCreated_forgetsPreview ==
    /\ phase = "started"
    /\ <<"commandCreated", "onCommandCreated">> \in attached
    /\ handlers' = handlers \o <<"onExecute", "onDestroy">>
    /\ attached' = attached \cup {<<"execute", "onExecute">>,
                                  <<"executePreview", "onExecutePreview">>,
                                  <<"destroy", "onDestroy">>}
    /\ dialog' = CreatedDialog
    /\ phase' = "dialog"
    /\ UNCHANGED <<autoTerminate, terminatedBy, objVars, pc, idx, event,
                   isValidResult, messageBox, built>>

\* FlowValveCommandCreatedHandler.notify
CommandCreated ==
    /\ phase = "started"
    /\ <<"commandCreated", "onCommandCreated">> \in attached
    /\ handlers' = handlers \o <<"onExecute", "onExecutePreview", "onDestroy">>
    /\ attached' = attached \cup {<<"execute", "onExecute">>,
                                  <<"executePreview", "onExecutePreview">>,
                                  <<"destroy", "onDestroy">>}
    /\ dialog' = CreatedDialog
    /\ phase' = "dialog"
    /\ UNCHANGED <<autoTerminate, terminatedBy, objVars, pc, idx, event,
                   isValidResult, messageBox, built>>

\* the user types a value into one of the five editable inputs
UserEdit ==
    /\ phase = "dialog"
    /\ pc = "idle"
    /\ \/ \E v \in DialogDegInputs : dialog' = [dialog EXCEPT !.theta = v]
       \/ \E v \in DialogDInputs : dialog' = [dialog EXCEPT !.D = v]
       \/ \E v \in LInputs : dialog' = [dialog EXCEPT !.L = v]
       \/ \E v \in RHInputs : dialog' = [dialog EXCEPT !.RH = v]
       \/ \E v \in DialogHInputs : dialog' = [dialog EXCEPT !.H = v]
    /\ UNCHANGED <<autoTerminate, terminatedBy, objVars, phase, handlers,
                   attached, pc, idx, event, isValidResult, messageBox,
                   built>>

\* notify whose executePreview builds the default FlowValve, skipping the loop
Notify_previewDefaults ==
    /\ phase = "dialog"
    /\ pc = "idle"
    /\ \E ev \in {"execute", "executePreview"} :
          /\ \E h \in {"onExecute", "onExecutePreview"} : <<ev, h>> \in attached
          /\ event' = ev
          /\ pc' = IF ev = "executePreview" THEN "create" ELSE "loop"
    /\ fv' = FlowValve_init
    /\ last' = NoCall
    /\ pre' = FlowValve_init
    /\ exc' = "none"
    /\ idx' = 1
    /\ isValidResult' = FALSE
    /\ built' = NotBuilt
    /\ UNCHANGED <<autoTerminate, terminatedBy, phase, handlers, attached,
                   dialog, messageBox>>

\* FlowValveCommandExecuteHandler.notify, entry: flow_valve = FlowValve()
Notify ==
    /\ phase = "dialog"
    /\ pc = "idle"
    /\ \E ev \in {"execute", "executePreview"} :
          /\ \E h \in {"onExecute", "onExecutePreview"} : <<ev, h>> \in attached
          /\ event' = ev
    /\ fv' = FlowValve_init
    /\ last' = NoCall
    /\ pre' = FlowValve_init
    /\ exc' = "none"
    /\ pc' = "loop"
    /\ idx' = 1
    /\ isValidResult' = FALSE
    /\ built' = NotBuilt
    /\ UNCHANGED <<autoTerminate, terminatedBy, phase, handlers, attached,
                   dialog, messageBox>>

AtInput(id) == pc = "loop" /\ idx <= Len(InputIds) /\ InputIds[idx] = id

\* one iteration of the for loop that calls a setter
LoopSet(op, arg, new, raised) ==
    /\ fv' = new
    /\ last' = [op |-> op, arg |-> arg]
    /\ pre' = fv
    /\ exc' = IF raised THEN "ZeroDivisionError" ELSE "none"
    /\ pc' = IF raised THEN "except" ELSE "loop"
    /\ idx' = idx + 1
    /\ UNCHANGED <<autoTerminate, terminatedBy, phase, handlers, attached,
                   dialog, event, isValidResult, messageBox, built>>

LoopTheta ==
    /\ AtInput("theta")
    /\ LET v == evaluateDeg(dialog.theta)
       IN  LoopSet("theta", v, theta_set(fv, v),
                   calculate_P_raises([fv EXCEPT !.theta = v]))

LoopD ==
    /\ AtInput("D")
    /\ LET v == evaluateCm(dialog.D)
       IN  LoopSet("D", v, D_set(fv, v), calculate_P_raises([fv EXCEPT !.D = v]))

LoopL ==
    /\ AtInput("L")
    /\ LoopSet("L", evaluateCm(dialog.L), L_set(fv, evaluateCm(dialog.L)), FALSE)

LoopRH ==
    /\ AtInput("RH")
    /\ LoopSet("RH", evaluateCm(dialog.RH), RH_set(fv, evaluateCm(dialog.RH)), FALSE)

LoopH ==
    /\ AtInput("H")
    /\ LoopSet("H", evaluateCm(dialog.H), H_set(fv, evaluateCm(dialog.H)), FALSE)

\* input.formattedText = f'~ {round(flow_valve.P, 2)} cm'
LoopP ==
    /\ AtInput("P")
    /\ dialog' = [dialog EXCEPT !.P = round(fv.P, 2)]
    /\ idx' = idx + 1
    /\ UNCHANGED <<autoTerminate, terminatedBy, objVars, phase, handlers,
                   attached, pc, event, isValidResult, messageBox, built>>

\* input.formattedText = f'~ {round(flow_valve.WT, 2)} cm'; the loop ends
LoopWT ==
    /\ AtInput("WT")
    /\ dialog' = [dialog EXCEPT !.WT = round(Float(fv.WT), 2)]
    /\ idx' = idx + 1
    /\ pc' = "create"
    /\ UNCHANGED <<autoTerminate, terminatedBy, objVars, phase, handlers,
                   attached, event, isValidResult, messageBox, built>>

\* the host raises inside evaluateExpression (an expression it cannot
\* evaluate in the requested unit): control goes to the except clause
EvaluateRaises ==
    /\ pc = "loop"
    /\ idx <= 5
    /\ exc' = "RuntimeError"
    /\ pc' = "except"
    /\ UNCHANGED <<autoTerminate, terminatedBy, fv, last, pre, phase,
                   handlers, attached, dialog, idx, event, isValidResult,
                   messageBox, built>>

\* create_flow_valve, when createNewComponent returns None: message box, return
CreateNoComponent ==
    /\ pc = "create"
    /\ messageBox' = "New Component Failed"
    /\ pc' = "valid"
    /\ UNCHANGED <<autoTerminate, terminatedBy, objVars, phase, handlers,
                   attached, dialog, idx, event, isValidResult, built>>

\* construction whose sensor-pipe and ball-valve spool patterns use the
\* default hole count instead of self.H
Construction_fixedSensorHoles(self, n) ==
    [kind |-> "built",
     theta |-> self.theta,
     P |-> self.P,
     D |-> self.D,
     outerRadius |-> self.D \div 2,
     innerRadius |-> (self.D \div 2) - (self.D \div 10),
     halfLength |-> self.L \div 2,
     RH |-> self.RH,
     d |-> self.d,
     patterns |-> [i \in 1..n |->
                     [quantity |-> IF i \in {3, 4} THEN self.H ELSE defaultHoles,
                      totalAngle |-> 360]]]

\* what create_flow_valve reads from self and hands to the host: the name,
\* the plane angle, the extrude distance P/2 + 70 of the sensor pipe, the
\* main pipe radii D/2 and D/2 - D/10, L/2, RH, and the quantity of each of
\* the six circular patterns
Construction(self, n) ==
    [kind |-> "built",
     theta |-> self.theta,
     P |-> self.P,
     D |-> self.D,
     outerRadius |-> self.D \div 2,
     innerRadius |-> (self.D \div 2) - (self.D \div 10),
     halfLength |-> self.L \div 2,
     RH |-> self.RH,
     d |-> self.d,
     patterns |-> [i \in 1..n |-> [quantity |-> self.H, totalAngle |-> 360]]]

\* create_flow_valve that recomputes the wall thickness before it builds
CreateFlowValve_recomputesWT ==
    /\ pc = "create"
    /\ fv' = calculate_WT(fv)
    /\ built' = Construction(fv, 6)
    /\ pc' = "valid"
    /\ UNCHANGED <<autoTerminate, terminatedBy, last, pre, exc, phase,
                   handlers, attached, dialog, idx, event, isValidResult,
                   messageBox>>

\* create_flow_valve, the whole construction sequence
CreateFlowValve ==
    /\ pc = "create"
    /\ built' = Construction(fv, 6)
    /\ pc' = "valid"
    /\ UNCHANGED <<autoTerminate, terminatedBy, objVars, phase, handlers,
                   attached, dialog, idx, event, isValidResult, messageBox>>

\* create_flow_valve, when a host call raises after n circular patterns
CreateRaises ==
    /\ pc = "create"
    /\ \E n \in 0..5 : built' = Construction(fv, n)
    /\ exc' = "RuntimeError"
    /\ pc' = "except"
    /\ UNCHANGED <<autoTerminate, terminatedBy, fv, last, pre, phase,
                   handlers, attached, dialog, idx, event, isValidResult,
                   messageBox>>

\* args.isValidResult = True, and notify returns
MarkValid ==
    /\ pc = "valid"
    /\ isValidResult' = TRUE
    /\ pc' = "returned"
    /\ UNCHANGED <<autoTerminate, terminatedBy, objVars, phase, handlers,
                   attached, dialog, idx, event, messageBox, built>>

\* except: ui.messageBox('Failed: ...'), and notify returns
Except ==
    /\ pc = "except"
    /\ messageBox' = "Failed"
    /\ pc' = "returned"
    /\ UNCHANGED <<autoTerminate, terminatedBy, objVars, phase, handlers,
                   attached, dialog, idx, event, isValidResult, built>>

\* after notify has returned: the local flow_valve and the event's args are
\* gone, the host takes the result and the dialog waits for the next event
Returned ==
    /\ pc = "returned"
    /\ fv' = NoValve
    /\ last' = NoCall
    /\ pre' = NoValve
    /\ exc' = "none"
    /\ pc' = "idle"
    /\ idx' = 0
    /\ event' = "none"
    /\ isValidResult' = FALSE
    /\ messageBox' = "none"
    /\ built' = NotBuilt
    /\ UNCHANGED <<autoTerminate, terminatedBy, phase, handlers, attached,
                   dialog>>

\* FlowValveCommandDestroyHandler.notify: adsk.terminate()
Destroy ==
    /\ phase = "dialog"
    /\ pc = "idle"
    /\ <<"destroy", "onDestroy">> \in attached
    /\ phase' = "terminated"
    /\ terminatedBy' = "adsk.terminate"
    /\ UNCHANGED <<autoTerminate, objVars, handlers, attached, dialog, pc,
                   idx, event, isValidResult, messageBox, built>>

CmdNext ==
    \/ run
    \/ RunRaises
    \/ CommandCreated
    \/ UserEdit
    \/ Notify
    \/ LoopTheta
    \/ LoopD
    \/ LoopL
    \/ LoopRH
    \/ LoopH
    \/ LoopP
    \/ LoopWT
    \/ EvaluateRaises
    \/ CreateNoComponent
    \/ CreateFlowValve
    \/ CreateRaises
    \/ MarkValid
    \/ Except
    \/ Returned
    \/ Destroy

CmdSpec == CmdInit /\ [][CmdNext]_vars

-----------------------------------------------------------------------------
(* Properties of the FlowValve object under Spec *)

\* cos(pi/2 - angle) is within epsilon = 1e-6 of zero
DegenerateAngle(theta) == BelowPow10(CosHalfPiMinus(theta), -6)

\* a transducer distance of 10^9 cm or more: what a cosine below 1e-6 gives
Huge(p) == ~BelowPow10(p, 9)

\* C1: whenever the stored D is positive, the wall thickness read through WT
\* is D / 10 (the D setter recomputes WT).
C1_WTFollowsD == (fv.kind = "FlowValve" /\ fv.D > 0) => fv.WT * 10 = fv.D

\* C2: P is never stale: in every state it equals D / cos(pi/2 - theta) of
\* the stored D and theta.
C2_PNeverStale ==
    fv.kind = "FlowValve" => fv.P = FloatDiv(fv.D, CosHalfPiMinus(fv.theta))

C2_Witness ==
    /\ last = [op |-> "D", arg |-> 50000]
    /\ fv.theta = radians(30)
    /\ pre.P = Float(80000)
    /\ fv.P = Float(100000)

\* C3: a D, L or RH setter called with a value <= 0 signals an error and
\* stores nothing; the object never holds a non-positive D, L or RH.
C3_NonPositiveRejected ==
    /\ (last.op \in {"D", "L", "RH"} /\ last.arg <= 0) => (exc # "none" /\ fv = pre)
    /\ fv.kind = "FlowValve" => (fv.D > 0 /\ fv.L > 0 /\ fv.RH > 0)

\* C4 (as stated): setting theta to pi/2 does not complete normally.
C4_RightAngleRejected ==
    (last = [op |-> "theta", arg |-> radians(90)]) => exc # "none"

\* C4 (amended): setting theta to pi/2 completes normally, stores the angle
\* and leaves P = D / cos(0) = D, a finite value.
C4_RightAngleAccepted ==
    (last = [op |-> "theta", arg |-> radians(90)]) =>
        /\ exc = "none"
        /\ fv.theta = radians(90)
        /\ fv.P = Float(fv.D)
        /\ IsFinite(fv.P)

C4_Witness ==
    /\ last = [op |-> "theta", arg |-> radians(90)]
    /\ fv.D = 50000
    /\ pre.theta = radians(30)

\* C5: a theta setter call with a degenerate angle (cos(pi/2 - angle) within
\* epsilon of zero) signals an error and stores no huge, infinite or NaN P.
C5_DegenerateRejected ==
    (last.op = "theta" /\ DegenerateAngle(last.arg)) =>
        (exc # "none" /\ ~Huge(fv.P))

\* C6 (as stated): after D=40, theta=70 deg, the call theta=90 deg is
\* rejected and P keeps its last valid value; a rejected call changes nothing.
C6_RejectedIsAtomic ==
    /\ (/\ last = [op |-> "theta", arg |-> radians(90)]
        /\ pre.D = 40000
        /\ pre.theta = radians(70)) => (exc # "none" /\ fv.P = pre.P)
    /\ exc # "none" => fv = pre

\* C6 (amended): after D=40, theta=70 deg, the call theta=90 deg is accepted:
\* only theta and P change, theta is 90 deg and P is recomputed to 40.
C6_RightAngleRecomputes ==
    (/\ last = [op |-> "theta", arg |-> radians(90)]
     /\ pre.D = 40000
     /\ pre.theta = radians(70)) =>
        /\ exc = "none"
        /\ pre.P = [m |-> 42566, e |-> -3]
        /\ fv = [pre EXCEPT !.theta = radians(90), !.P = Float(40000)]

C6_Witness ==
    /\ last = [op |-> "theta", arg |-> radians(90)]
    /\ pre.D = 40000
    /\ pre.theta = radians(70)
    /\ fv.P = Float(40000)

\* C9: for D > 0 and 0 < theta < pi with cos(pi/2 - theta) bounded away from
\* zero, P is D / cos(pi/2 - theta) (checked by multiplying back) and is
\* strictly positive.
C9_PPositiveInRange ==
    (/\ fv.kind = "FlowValve"
     /\ fv.D > 0
     /\ 0 < fv.theta /\ fv.theta < radians(180)
     /\ ~DegenerateAngle(fv.theta)) =>
        LET c == CosHalfPiMinus(fv.theta)
        IN  /\ fv.P.m > 0
            /\ fv.P.e = -7 - c.e
            /\ fv.P.m * c.m <= fv.D * 10000
            /\ fv.D * 10000 < (fv.P.m + 1) * c.m

C9_Witness ==
    /\ last = [op |-> "theta", arg |-> radians(110)]
    /\ fv.D = 50000
    /\ fv.P = [m |-> 53208, e |-> -3]

-----------------------------------------------------------------------------
(* Properties of the command handlers under CmdSpec *)

\* C7: a hole count that is not >= 1 is rejected before construction:
\* create_flow_valve is never entered, and no circular pattern is created,
\* with H = 0.
C7_ZeroHolesRejected ==
    /\ pc = "create" => fv.H >= 1
    /\ built.kind = "built" =>
          \A i \in DOMAIN built.patterns : built.patterns[i].quantity >= 1

\* C8: when D > 0, L > 0, RH > 0, H >= 1 and the angle is not degenerate,
\* the derived values create_flow_valve hands to the host (P as it reads it,
\* the wall thickness) are finite and strictly positive.
C8_DerivedPositive ==
    (/\ built.kind = "built"
     /\ fv.D > 0 /\ fv.L > 0 /\ fv.RH > 0 /\ fv.H >= 1
     /\ ~DegenerateAngle(fv.theta)) =>
        /\ IsFinite(built.P) /\ built.P.m > 0
        /\ fv.WT > 0
        /\ built.outerRadius - built.innerRadius > 0

\* the fields of a FlowValve on which no setter was called, P rounded to
\* p2 hundredths
FreshValve(self, p2) ==
    /\ self.H = 6 /\ self.RH = 3000 /\ self.theta = radians(70)
    /\ self.D = 40000 /\ self.L = 100000
    /\ self.P.e = -3
    /\ self.P.m * 9397 <= 40000 * 10000
    /\ 40000 * 10000 < (self.P.m + 1) * 9397
    /\ round(self.P, 2) = [m |-> p2, e |-> -2]
    /\ self.WT = 4000

\* C10 (as stated): a FlowValve with no setter calls holds the defaults, its
\* P rounds to 42.56 and its WT is 4.0; the dialog shows these values when
\* the command is created.
C10_DefaultsRoundTo4256 ==
    [][/\ (pc = "idle" /\ pc' = "loop") => FreshValve(fv', 4256)
       /\ (phase = "started" /\ phase' = "dialog") =>
             (dialog'.P = [m |-> 4256, e |-> -2] /\ dialog'.WT = [m |-> 4, e |-> 0])]_vars

\* C10 (amended): a FlowValve with no setter calls holds H=6, RH=3,
\* theta=70 deg, D=40, L=100, P = 40 / cos(pi/2 - theta), which rounds to
\* 42.57, and WT = 4.0; the dialog shows 42.57 and 4 when it is created.
C10_DefaultsRoundTo4257 ==
    [][/\ (pc = "idle" /\ pc' = "loop") => FreshValve(fv', 4257)
       /\ (phase = "started" /\ phase' = "dialog") =>
             (dialog'.P = [m |-> 4257, e |-> -2] /\ dialog'.WT = [m |-> 4, e |-> 0])]_vars

C10_Witness ==
    /\ pc = "loop" /\ idx = 1
    /\ last = NoCall
    /\ fv.P = [m |-> 42566, e |-> -3]
    /\ dialog.P = [m |-> 4257, e |-> -2]
    /\ dialog.WT = [m |-> 4, e |-> 0]

-----------------------------------------------------------------------------
(* Frame and lifecycle properties *)

\* C11: the L, RH and H setters change only their own field: theta, D, the
\* other two of L/RH/H, P and WT keep their values.
C11_PureSetters ==
    /\ last.op = "L" => fv = [pre EXCEPT !.L = last.arg]
    /\ last.op = "RH" => fv = [pre EXCEPT !.RH = last.arg]
    /\ last.op = "H" => fv = [pre EXCEPT !.H = last.arg]

C11_Witness ==
    /\ last = [op |-> "H", arg |-> 4]
    /\ pre.H = 0
    /\ fv.H = 4
    /\ fv.RH = 0
    /\ fv.P = pre.P

\* C12: once create_flow_valve has been invoked, no field of the FlowValve
\* changes again; the object stays as handed over until notify returns and
\* it is discarded.
C12_FrozenAfterHandOff ==
    [][/\ pc \in {"create", "valid"} => fv' = fv
       /\ (pc = "except" /\ built.kind = "built") => fv' = fv
       /\ pc = "returned" => fv' = NoValve]_vars

C12_Witness ==
    /\ pc = "returned"
    /\ isValidResult
    /\ built.kind = "built"
    /\ fv.kind = "FlowValve"
    /\ fv.D = 50000
    /\ fv.WT = 4000

-----------------------------------------------------------------------------
(* The read-only fields of the dialog *)

\* C13: within one notification the inputs are applied in the order theta,
\* D, L, RH, H (an input not yet reached still has its default), and the P
\* text, written after the theta and D setters, is D / cos(pi/2 - theta) of
\* the dialog's values, rounded to 2 decimals.
C13_OrderThenPText ==
    /\ pc = "loop" =>
          /\ fv.theta = IF idx > 1 THEN radians(dialog.theta) ELSE defaultTheta
          /\ fv.D = IF idx > 2 THEN dialog.D ELSE defaultD
          /\ fv.L = IF idx > 3 THEN dialog.L ELSE defaultLength
          /\ fv.RH = IF idx > 4 THEN dialog.RH ELSE defaultRH
          /\ fv.H = IF idx > 5 THEN dialog.H ELSE defaultHoles
    /\ ((pc = "loop" /\ idx > 6) \/ pc \in {"create", "valid"}) =>
          dialog.P = round(FloatDiv(dialog.D, CosHalfPiMinus(radians(dialog.theta))), 2)

C13_Witness ==
    /\ pc = "create"
    /\ dialog.theta = 210
    /\ dialog.D = 50000
    /\ dialog.P = [m |-> -10000, e |-> -2]

\* C14: every write of the WT text shows the wall thickness of the current
\* main diameter, D / 10, rounded to 0 decimals (the state right after the
\* execute handler's write is pc = "create").
C14_WTTextFollowsD ==
    pc = "create" => dialog.WT = round(Float(dialog.D \div 10), 0)

-----------------------------------------------------------------------------
(* Independence of notifications, periodicity of the angle *)

\* C15: whatever happened in earlier notifications, and for execute and
\* executePreview alike, everything a notification's construction uses is
\* determined by the values the dialog holds at that notification.
C15_BuiltFromDialogOnly ==
    built.kind = "built" =>
        /\ event \in {"execute", "executePreview"}
        /\ built.theta = radians(dialog.theta)
        /\ built.D = dialog.D
        /\ built.P = FloatDiv(dialog.D, CosHalfPiMinus(radians(dialog.theta)))
        /\ built.outerRadius = dialog.D \div 2
        /\ built.innerRadius = (dialog.D \div 2) - (dialog.D \div 10)
        /\ built.halfLength = dialog.L \div 2
        /\ built.RH = dialog.RH
        /\ built.d = 15000
        /\ \A i \in DOMAIN built.patterns : built.patterns[i].quantity = dialog.H

C15_Witness ==
    /\ built.kind = "built"
    /\ event = "executePreview"
    /\ dialog.theta = 90
    /\ dialog.D = 50000
    /\ dialog.L = 0
    /\ built.P = Float(50000)
    /\ built.halfLength = 0

\* C16: the angle is taken modulo 2*pi: for every D and every angle a,
\* setting theta to a and setting it to a + 2*pi give the same P.
C16_AnglePeriodic ==
    fv.kind = "FlowValve" =>
        \A a \in AngleInputs :
            (a + radians(360)) \in AngleInputs =>
                theta_set(fv, a).P = theta_set(fv, a + radians(360)).P

-----------------------------------------------------------------------------
(* The result flag of the execute handler; algebra of the two setters *)

C18_SettersCommute ==
    fv.kind = "FlowValve" =>
        \A a \in AngleInputs, dd \in DInputs :
            LET x == D_set(theta_set(fv, a), dd)
                y == theta_set(D_set(fv, dd), a)
            IN  /\ x.theta = y.theta /\ x.D = y.D /\ x.P = y.P
                /\ theta_set(theta_set(fv, a), a) = theta_set(fv, a)
                /\ D_set(D_set(fv, dd), dd) = D_set(fv, dd)

C18_Witness ==
    /\ last = [op |-> "D", arg |-> -40000]
    /\ pre.theta = radians(210)
    /\ pre.D = 50000
    /\ fv.theta = radians(210)
    /\ fv.P = Float(80000)

-----------------------------------------------------------------------------
(* Bolt-hole patterns; ownership of the event handlers *)

\* C19: every circular pattern of one run of create_flow_valve has quantity
\* equal to the H the FlowValve holds at hand-off and total angle 360
\* degrees, and a completed run has created six of them.
C19_SameHolesOnAllFlanges ==
    built.kind = "built" =>
        /\ \A i \in DOMAIN built.patterns :
              built.patterns[i] = [quantity |-> fv.H, totalAngle |-> 360]
        /\ pc = "valid" => Len(built.patterns) = 6

C19_Witness ==
    /\ pc = "valid"
    /\ built.kind = "built"
    /\ fv.H = 4
    /\ Len(built.patterns) = 6
    /\ built.patterns[1].quantity = 4
    /\ built.patterns[6].quantity = 4

\* C20: before termination, every handler attached to a host event is in
\* the list _handlers.
C20_AttachedAreReferenced ==
    phase # "terminated" =>
        \A p \in attached : \E i \in 1..Len(handlers) : handlers[i] = p[2]

C20_Witness ==
    /\ phase = "dialog"
    /\ pc = "returned"
    /\ Cardinality(attached) = 4
    /\ handlers = <<"onCommandCreated", "onExecute", "onExecutePreview", "onDestroy">>

-----------------------------------------------------------------------------
(* Lifetime of the script *)

\* C21 (as stated): the script stays alive after run returns and only the
\* destroy handler's adsk.terminate ends it; no notification is handled
\* after termination.
C21_OnlyDestroyTerminates ==
    /\ phase \in {"started", "dialog"} => ~autoTerminate
    /\ phase = "terminated" =>
          (terminatedBy = "adsk.terminate" /\ pc = "idle" /\ fv = NoValve)
    /\ terminatedBy # "none" => phase = "terminated"

\* C21 (amended): when run returned without raising, auto-termination is off
\* and only the destroy handler's adsk.terminate ends the script; when run
\* raised, auto-termination is still on and the host ends the script as run
\* returns, before any command exists.  Either way adsk.terminate is called
\* by the destroy handler only and no notification is handled after
\* termination.
C21_DestroyOrFailedRun ==
    /\ phase \in {"started", "dialog"} => ~autoTerminate
    /\ phase = "terminated" =>
          /\ pc = "idle" /\ fv = NoValve
          /\ \/ terminatedBy = "adsk.terminate" /\ ~autoTerminate
                   /\ <<"destroy", "onDestroy">> \in attached
             \/ terminatedBy = "autoTerminate" /\ autoTerminate
                   /\ dialog = NoDialog /\ messageBox = "Failed"
    /\ terminatedBy # "none" => phase = "terminated"

C21_Witness ==
    /\ phase = "terminated"
    /\ terminatedBy = "adsk.terminate"
    /\ ~autoTerminate
    /\ dialog.D = 50000
    /\ dialog.WT = [m |-> 400, e |-> -2]

====
